---- MODULE Spec2Model ----
(***************************************************************************)
(* Model of benchmark.py (system-health): one process per program run.     *)
(* Importing the module derives the log file name from the current date    *)
(* and opens the file handler; generate_report() then logs a header,       *)
(* acquires three usage percentages, grades each, aggregates the grades    *)
(* and logs the report.  Percentages are held in tenths of a percent       *)
(* (psutil reports one decimal), so 30 % is 300.                           *)
(***************************************************************************)
EXTENDS Integers, Sequences, FiniteSets, TLC

\* ------------------------------------------------------------------ bounds
MaxRuns == 2        \* program runs (processes) started one after the other
MaxDay == 1         \* midnights that pass (the clock starts at Calendar[1])
MaxValue == 1000    \* largest reading the grade harness tries (100.0 %)

\* --------------------------------------------------------------- variables
VARIABLES
  today,         \* index into Calendar: the date datetime.now() returns
  pid,           \* number of processes started so far; the running one's id
  pc,            \* position of the current process (source line about to run)
  log_filename,  \* module global, line 9
  frame,         \* local variables of the generate_report activation
  fault,         \* exception in flight in the current process, or "none"
  console,       \* lines the StreamHandler wrote for the current process
  fs,            \* file system: file name -> lines written by FileHandlers
  finished,      \* history: per ended process its log file and exit status
  probe          \* harness for the pure functions (grade, aggregation)

vars == <<today, pid, pc, log_filename, frame, fault, console, fs, finished, probe>>
runvars == <<today, pid, pc, log_filename, frame, fault, console, fs, finished>>

\* ------------------------------------------------------------ environment
\* Dates the clock walks through (a year rollover and a day/month swap).
Calendar ==
  << [year |-> 2025, month |-> 12, day |-> 31],
     [year |-> 2026, month |-> 1,  day |-> 12],
     [year |-> 2026, month |-> 12, day |-> 1],
     [year |-> 2027, month |-> 1,  day |-> 1] >>

\* Values psutil may return, in tenths of a percent: per metric one just
\* below the low threshold, one between the thresholds, one above the high.
CpuReadings == {299, 450, 800}
MemReadings == {499, 600, 900}
DiskReadings == {399, 500, 850}

Grades == {"A", "B", "C"}

\* ------------------------------------------------------- module level code
\* strftime("%Y%d%m"): the digits year, day, month as one number.
strftime_Ydm(d) == d.year * 10000 + d.day * 100 + d.month

\* strftime('%Y-%m-%d %H:%M:%S') at day resolution.
strftime_Y_m_d(d) == <<d.year, d.month, d.day>>

LogFilenameOf(d) == [stamp |-> strftime_Ydm(d), suffix |-> "_system_health.log"]

NoFile == [stamp |-> 0, suffix |-> ""]

\* Numeric severities of the logging levels.
LevelNo == [DEBUG |-> 10, INFO |-> 20, WARNING |-> 30]

logger_level_warning == "WARNING"

logger_level == "DEBUG"
ch_level == "DEBUG"
fh_level == "DEBUG"

\* open(name, mode): 'w' truncates or creates, 'a' keeps what is there.
OpenFile(files, name, mode) ==
  IF mode = "w" \/ name \notin DOMAIN files
  THEN [n \in DOMAIN files \cup {name} |-> IF n = name THEN <<>> ELSE files[n]]
  ELSE files

fh_mode_append == "a"

fh_mode == "w"

\* A handler emits a record whose level reaches the handler's level.
Handle(lines, rec, level) ==
  IF LevelNo[rec.levelname] >= LevelNo[level] THEN Append(lines, rec) ELSE lines

\* logger.<level>(msg): both handlers receive the record when the logger
\* is enabled for the level.
Log(levelname, fmt, args) ==
  LET rec == [pid |-> pid, levelname |-> levelname, fmt |-> fmt, args |-> args]
  IN IF LevelNo[levelname] >= LevelNo[logger_level]
     THEN /\ console' = Handle(console, rec, ch_level)
          /\ fs' = [fs EXCEPT ![log_filename] = Handle(@, rec, fh_level)]
     ELSE UNCHANGED <<console, fs>>

Info(fmt, args) == Log("INFO", fmt, args)

\* ---------------------------------------------------------- pure functions
\* grade with its comparisons made inclusive.
grade_inclusive(value, thresholds) ==
  IF value <= thresholds[1] THEN "A"
  ELSE IF value <= thresholds[2] THEN "B"
  ELSE "C"

\* grade with the letters of its first two branches exchanged.
grade_swapped(value, thresholds) ==
  IF value < thresholds[1] THEN "B"
  ELSE IF value < thresholds[2] THEN "A"
  ELSE "C"

\* grade(value, thresholds), lines 54-60 (tuple index 0, 1 is 1, 2 here).
grade(value, thresholds) ==
  IF value < thresholds[1] THEN "A"
  ELSE IF value < thresholds[2] THEN "B"
  ELSE "C"

CpuThresholds == <<300, 600>>
MemThresholds == <<500, 750>>
DiskThresholds == <<400, 700>>

\* The score table turned upside down.
grade_mapping_inverted == [A |-> 1, B |-> 2, C |-> 3]

grade_mapping == [A |-> 3, B |-> 2, C |-> 1]

\* The memory score added twice, the disk score not at all.
average_score_typo(g_cpu, g_mem, g_disk) ==
  <<grade_mapping[g_cpu] + grade_mapping[g_mem] + grade_mapping[g_mem], 3>>

\* average_score as an exact fraction <<numerator, denominator>>.
average_score(g_cpu, g_mem, g_disk) ==
  <<grade_mapping[g_cpu] + grade_mapping[g_mem] + grade_mapping[g_disk], 3>>

\* The cut points rounded down instead of up.
CutA_down == <<266, 100>>
CutB_down == <<166, 100>>

\* The decimal literals 2.67 and 1.67 as fractions.
CutA == <<267, 100>>
CutB == <<167, 100>>

\* q >= lit for fractions with positive denominators.
FracGE(q, lit) == q[1] * lit[2] >= lit[1] * q[2]

\* Lines 78-85.
OverallGrade(g_cpu, g_mem, g_disk) ==
  LET avg == average_score(g_cpu, g_mem, g_disk)
  IN IF FracGE(avg, CutA) THEN "A"
     ELSE IF FracGE(avg, CutB) THEN "B"
     ELSE "C"

\* ------------------------------------------------------------------- Init
Init ==
  /\ today = 1
  /\ pid = 0
  /\ pc = "idle"
  /\ log_filename = NoFile
  /\ frame = <<>>
  /\ fault = "none"
  /\ console = <<>>
  /\ fs = <<>>
  /\ finished = <<>>
  /\ probe = [op |-> "none"]

\* ---------------------------------------------------------------- actions
\* The calendar date changes (midnight passes).
Tick ==
  /\ today <= MaxDay
  /\ today' = today + 1
  /\ UNCHANGED <<pid, pc, log_filename, frame, fault, console, fs, finished, probe>>

\* A new process starts once the previous one has ended; lines 8-9.
Start ==
  /\ pc \in {"idle", "exited", "crashed"}
  /\ pid < MaxRuns
  /\ pid' = pid + 1
  /\ log_filename' = LogFilenameOf(Calendar[today])
  /\ frame' = <<>>
  /\ fault' = "none"
  /\ console' = <<>>
  /\ pc' = "L14"
  /\ UNCHANGED <<today, fs, finished, probe>>

\* Lines 14-28: logger and handlers; FileHandler opens the file at once.
Configure ==
  /\ pc = "L14"
  /\ fs' = OpenFile(fs, log_filename, fh_mode)
  /\ pc' = "L39"
  /\ UNCHANGED <<today, pid, log_filename, frame, fault, console, finished, probe>>

Bind(name, value) == frame' = (name :> value) @@ frame

Bound(name) == name \in DOMAIN frame

\* A statement that only logs.
LogStep(at, fmt, args, next) ==
  /\ pc = at
  /\ Info(fmt, args)
  /\ pc' = next
  /\ UNCHANGED <<today, pid, log_filename, frame, fault, finished, probe>>

\* A statement that only assigns a local.
AssignStep(at, name, value, next) ==
  /\ pc = at
  /\ Bind(name, value)
  /\ pc' = next
  /\ UNCHANGED <<today, pid, log_filename, fault, console, fs, finished, probe>>

L39 == AssignStep("L39", "now", Calendar[today], "L40")
L40 == LogStep("L40", "===== System Health Report =====", <<>>, "L41")
L41 == LogStep("L41", "Report generated on: {}", <<strftime_Y_m_d(frame["now"])>>, "L44")

\* The exception swallowed: control goes on with the next statement.
Propagate_swallowed(at) ==
  CASE at = "L44" -> "L45" [] at = "L45" -> "L46" [] OTHER -> "L48"

\* The reading is taken but never stored.
Acquire_dropped(at, name, readings, next) ==
  /\ pc = at
  /\ pc' = next
  /\ UNCHANGED <<today, pid, log_filename, frame, fault, console, fs, finished, probe>>

\* Where control goes when a statement of generate_report raises: no
\* try/except encloses it, so the exception leaves the function and the
\* process ends with a traceback.
Propagate(at) == "crashed"

\* A psutil call returns a reading.
Acquire(at, name, readings, next) ==
  \E v \in readings : AssignStep(at, name, v, next)

\* A psutil call raises.
AcquireFails(at, what) ==
  /\ pc = at
  /\ fault' = what
  /\ pc' = Propagate(at)
  /\ frame' = <<>>
  /\ finished' = Append(finished, [log_filename |-> log_filename, status |-> 1])
  /\ UNCHANGED <<today, pid, log_filename, console, fs, probe>>

L44 == Acquire("L44", "cpu_usage", CpuReadings, "L45")
L44Fails == AcquireFails("L44", "cpu_percent")
L45 == Acquire("L45", "mem_usage", MemReadings, "L46")
L45Fails == AcquireFails("L45", "virtual_memory")
L46 == Acquire("L46", "disk_usage", DiskReadings, "L48")
L46Fails == AcquireFails("L46", "disk_usage")

L48 == LogStep("L48", "System Metrics:", <<>>, "L49")
L49 == LogStep("L49", "CPU Usage: {}%", <<frame["cpu_usage"]>>, "L50")
L50 == LogStep("L50", "Memory Usage: {}%", <<frame["mem_usage"]>>, "L51")
L51 == LogStep("L51", "Disk Usage: {}%", <<frame["disk_usage"]>>, "L66")

L66 == AssignStep("L66", "grade_cpu", grade(frame["cpu_usage"], CpuThresholds), "L67")
L67 == AssignStep("L67", "grade_mem", grade(frame["mem_usage"], MemThresholds), "L68")
L68 == AssignStep("L68", "grade_disk", grade(frame["disk_usage"], DiskThresholds), "L70")

L70 == LogStep("L70", "Metric Grades:", <<>>, "L71")
L71 == LogStep("L71", "CPU Grade: {}", <<frame["grade_cpu"]>>, "L72")
L72 == LogStep("L72", "Memory Grade: {}", <<frame["grade_mem"]>>, "L73")
L73 == LogStep("L73", "Disk Grade: {}", <<frame["grade_disk"]>>, "L78")

L78 ==
  AssignStep("L78", "overall_grade",
             OverallGrade(frame["grade_cpu"], frame["grade_mem"], frame["grade_disk"]),
             "L87")

L87 == LogStep("L87", "Overall System Grade:", <<>>, "L88")
L88 == LogStep("L88", "Final Grade: {}", <<frame["overall_grade"]>>, "L89")
L89 == LogStep("L89", "===== End of Report =====", <<>>, "return")

\* generate_report returns and the script falls off its end: exit status 0.
Exit ==
  /\ pc = "return"
  /\ frame' = <<>>
  /\ pc' = "exited"
  /\ finished' = Append(finished, [log_filename |-> log_filename, status |-> 0])
  /\ UNCHANGED <<today, pid, log_filename, fault, console, fs, probe>>

Next ==
  \/ Tick \/ Start \/ Configure
  \/ L39 \/ L40 \/ L41
  \/ L44 \/ L44Fails \/ L45 \/ L45Fails \/ L46 \/ L46Fails
  \/ L48 \/ L49 \/ L50 \/ L51
  \/ L66 \/ L67 \/ L68
  \/ L70 \/ L71 \/ L72 \/ L73
  \/ L78
  \/ L87 \/ L88 \/ L89
  \/ Exit

Spec == Init /\ [][Next]_vars

\* ------------------------------------------------- pure-function harnesses
ThresholdPairs == {CpuThresholds, MemThresholds, DiskThresholds}

RunIdle ==
  /\ today = 1
  /\ pid = 0
  /\ pc = "idle"
  /\ log_filename = NoFile
  /\ frame = <<>>
  /\ fault = "none"
  /\ console = <<>>
  /\ fs = <<>>
  /\ finished = <<>>

\* grade on every reading 0.0 .. 100.0 % and every threshold pair in use.
InitGrade ==
  /\ RunIdle
  /\ probe \in [op : {"grade"}, value : 0..MaxValue, thresholds : ThresholdPairs,
                result : {"?"}]

CallGrade ==
  /\ probe.op = "grade"
  /\ probe.result = "?"
  /\ probe' = [probe EXCEPT !.result = grade(probe.value, probe.thresholds)]
  /\ UNCHANGED runvars

SpecGrade == InitGrade /\ [][CallGrade]_vars

Perms == {p \in [1..3 -> 1..3] : \A i, j \in 1..3 : p[i] = p[j] => i = j}

\* The aggregation of lines 78-85 on every triple of grades, and on the
\* same triple with its CPU, memory and disk positions permuted.
InitAggregate ==
  /\ RunIdle
  /\ probe \in [op : {"aggregate"}, grades : [1..3 -> Grades], perm : Perms,
                result : {"?"}, permuted : {"?"}]

CallAggregate ==
  /\ probe.op = "aggregate"
  /\ probe.result = "?"
  /\ LET g == probe.grades
         p == probe.perm
     IN probe' = [probe EXCEPT
                    !.result = OverallGrade(g[1], g[2], g[3]),
                    !.permuted = OverallGrade(g[p[1]], g[p[2]], g[p[3]])]
  /\ UNCHANGED runvars

SpecAggregate == InitAggregate /\ [][CallAggregate]_vars

\* ------------------------------------------------------------- properties
\* The file the current process logs to, as it is on disk.
CurrentFile == IF log_filename \in DOMAIN fs THEN fs[log_filename] ELSE <<>>

\* The current process is inside generate_report.
InGenerateReport == pc \notin {"idle", "L14", "exited", "crashed"}

\* The current process has opened its log file.
FileOpened == pc \notin {"idle", "L14"}

ReportFormats ==
  << "===== System Health Report =====",
     "Report generated on: {}",
     "System Metrics:",
     "CPU Usage: {}%",
     "Memory Usage: {}%",
     "Disk Usage: {}%",
     "Metric Grades:",
     "CPU Grade: {}",
     "Memory Grade: {}",
     "Disk Grade: {}",
     "Overall System Grade:",
     "Final Grade: {}",
     "===== End of Report =====" >>

ReportLen == Len(ReportFormats)

\* lines is the first Len(lines) lines of a report of the current process,
\* every one at level INFO.
IsReportPrefix(lines) ==
  /\ Len(lines) <= ReportLen
  /\ \A i \in 1..Len(lines) :
       /\ lines[i].fmt = ReportFormats[i]
       /\ lines[i].levelname = "INFO"
       /\ lines[i].pid = pid

Score(g) == CASE g = "A" -> 3 [] g = "B" -> 2 [] g = "C" -> 1

\* C1: for every value and each of the threshold pairs 30/60, 50/75 and
\* 40/70, grade is A exactly when value < low, B exactly when
\* low <= value < high and C exactly when value >= high.
C1_GradeBuckets ==
  probe.result /= "?" =>
    LET v == probe.value
        low == probe.thresholds[1]
        high == probe.thresholds[2]
    IN /\ probe.thresholds \in {<<300, 600>>, <<500, 750>>, <<400, 700>>}
       /\ (probe.result = "A") <=> (v < low)
       /\ (probe.result = "B") <=> (low <= v /\ v < high)
       /\ (probe.result = "C") <=> (v >= high)

\* grade was applied to a value equal to the low threshold and gave B.
C1_Witness ==
  /\ probe.result = "B"
  /\ probe.value = probe.thresholds[1]

\* C2: the overall grade of every triple of grades is A when the mean of
\* the scores A=3, B=2, C=1 is at least 2.67, otherwise B when it is at
\* least 1.67, otherwise C; it is always one of A, B, C.
C2_OverallFromMean ==
  probe.result /= "?" =>
    LET S == Score(probe.grades[1]) + Score(probe.grades[2]) + Score(probe.grades[3])
    IN /\ probe.result \in {"A", "B", "C"}
       /\ probe.result = IF 100 * S >= 3 * 267 THEN "A"
                         ELSE IF 100 * S >= 3 * 167 THEN "B"
                         ELSE "C"

\* The aggregation ran on A, A, B (mean 8/3, just under 2.67).
C2_Witness ==
  /\ probe.result = "B"
  /\ probe.grades = <<"A", "A", "B">>

\* C3: a run without a failure emits exactly the thirteen report lines, in
\* order, each once and at level INFO, to console and file, and ends.
C3_ThirteenLines ==
  /\ (pc /= "idle" /\ fault = "none") => IsReportPrefix(console)
  /\ (FileOpened /\ fault = "none") => CurrentFile = console
  /\ pc = "exited" => Len(console) = ReportLen
  /\ (pc /= "idle" /\ Len(console) = ReportLen) => pc \in {"return", "exited"}

\* A run has ended normally with its report written.
C3_Witness ==
  /\ pc = "exited"
  /\ Len(console) = 13
  /\ console[13].fmt = "===== End of Report ====="

\* C4: when a run completes after an earlier completed run that logged to
\* the same file (same calendar date), the file holds the later run's
\* thirteen lines and nothing of the earlier run.
C4_SecondRunOverwrites ==
  (/\ pc = "exited"
   /\ \E k \in 1..(pid - 1) :
        /\ finished[k].status = 0
        /\ finished[k].log_filename = log_filename)
  => /\ Len(CurrentFile) = ReportLen
     /\ \A i \in 1..Len(CurrentFile) : CurrentFile[i].pid = pid

\* Two runs completed one after the other with the same log file name.
C4_Witness ==
  /\ pc = "exited"
  /\ pid = 2
  /\ finished[1].status = 0
  /\ finished[1].log_filename = log_filename
  /\ Len(CurrentFile) > 0

\* C5: grade is monotonic: for a fixed threshold pair and value1 < value2,
\* grade(value1) is at least as good as grade(value2) under A > B > C.
C5_GradeMonotonic ==
  probe.result /= "?" =>
    \A value2 \in (probe.value + 1)..MaxValue :
      Score(probe.result) >= Score(grade(value2, probe.thresholds))

\* grade gave A for the value just below the low threshold, whose
\* successor grades strictly worse.
C5_Witness ==
  /\ probe.result = "A"
  /\ probe.value + 1 = probe.thresholds[1]
  /\ grade(probe.value + 1, probe.thresholds) = "B"

\* C6: the overall grade is the same for every permutation of the CPU,
\* memory and disk grades.
C6_AggregateSymmetric ==
  probe.result /= "?" => probe.result = probe.permuted

\* The aggregation ran on A, A, C and on its rotation C, A, A.
C6_Witness ==
  /\ probe.result /= "?"
  /\ probe.grades = <<"A", "A", "C">>
  /\ probe.perm = <<3, 1, 2>>

\* C7: whenever the three readings logged by a run all fall in the same
\* bucket of their own threshold pairs, the Final Grade line of that run
\* carries that letter.
C7_UniformGradesCarry ==
  (pc /= "idle" /\ Len(console) >= 12) =>
    LET c == console[4].args[1]
        m == console[5].args[1]
        d == console[6].args[1]
        final == console[12].args[1]
    IN /\ console[12].fmt = "Final Grade: {}"
       /\ CurrentFile[12] = console[12]
       /\ (c < 300 /\ m < 500 /\ d < 400) => final = "A"
       /\ (/\ 300 <= c /\ c < 600
           /\ 500 <= m /\ m < 750
           /\ 400 <= d /\ d < 700) => final = "B"
       /\ (c >= 600 /\ m >= 750 /\ d >= 700) => final = "C"

\* A run reported 29.9 / 49.9 / 39.9 and Final Grade A.
C7_Witness ==
  /\ pc = "exited"
  /\ console[4].args = <<299>>
  /\ console[5].args = <<499>>
  /\ console[6].args = <<399>>
  /\ console[12].args = <<"A">>

\* C8: when a metric acquisition fails the run aborts there: the process
\* ends with a non-zero status and the sink holds only the two lines
\* written before the acquisitions, so no metric, grade, Final Grade or
\* footer line.
C8_AcquisitionFailureAborts ==
  fault /= "none" =>
    /\ pc = "crashed"
    /\ finished[pid].status = 1
    /\ Len(console) = 2
    /\ IsReportPrefix(console)
    /\ CurrentFile = console

\* The disk acquisition failed after the CPU and memory ones succeeded.
C8_Witness ==
  /\ fault = "disk_usage"
  /\ pc = "crashed"
  /\ Len(console) = 2

C9_ReadingsBound ==
  Bound("cpu_usage") /\ Bound("mem_usage") /\ Bound("disk_usage")

C9_GradesBound ==
  Bound("grade_cpu") /\ Bound("grade_mem") /\ Bound("grade_disk")

C10_OverallFromSum ==
  (InGenerateReport /\ Bound("overall_grade")) =>
    LET S == Score(frame["grade_cpu"]) + Score(frame["grade_mem"])
             + Score(frame["grade_disk"])
        overall == frame["overall_grade"]
    IN /\ (overall = "A") <=> (S = 9)
       /\ (overall = "B") <=> (6 <= S /\ S <= 8)
       /\ (overall = "C") <=> (S <= 5)

\* A run graded A, A, B and computed overall B.
C10_Witness ==
  /\ InGenerateReport
  /\ Bound("overall_grade")
  /\ frame["grade_cpu"] = "A"
  /\ frame["grade_mem"] = "A"
  /\ frame["grade_disk"] = "B"
  /\ frame["overall_grade"] = "B"
====
